---- MODULE Spec2Model ----
(***************************************************************************)
(* XhrPlugin (src/src/plugins/event-plugins/XhrPlugin.ts): the wrappers of *)
(* XMLHttpRequest.prototype.open / send, the four terminal-event handlers  *)
(* and the emission policy, together with the part of the host             *)
(* (XMLHttpRequest, PluginContext, clock) the plugin reads and writes.     *)
(*                                                                         *)
(* JavaScript objects are records; an optional property that is absent is  *)
(* a field that is not in the record's DOMAIN.  The Map xhrMap is a        *)
(* function whose DOMAIN is the set of keys it holds.                      *)
(***************************************************************************)
EXTENDS Integers, Sequences, FiniteSets, TLC

(* ------------------------------ bounds -------------------------------- *)

\* number of send calls explored over all handles
MaxSends == 2
\* largest value of the epoch clock
MaxClock == 1

(* ------------------------------ inputs -------------------------------- *)

\* XMLHttpRequest objects of the page
Handles == {"xhr1"}

\* hosts the request filter accepts
AllowedHosts == {"api.example.com", "cdn.example.org"}

\* the (method, url, async) triples the application passes to open
OpenArgs ==
    { [method |-> "GET",  url |-> [host |-> "api.example.com", path |-> "/x"], async |-> TRUE],
      [method |-> "POST", url |-> [host |-> "cdn.example.org", path |-> "/y"], async |-> FALSE],
      [method |-> "GET",  url |-> [host |-> "denied.example.net", path |-> "/x"], async |-> TRUE] }

\* getResponseHeader of a header the response does not have
Null == <<"null">>

\* what the handle shows at the load event: status, statusText and
\* getResponseHeader('Content-Length') (Null, or the header's characters)
LoadResponses ==
    { [status |-> 200, statusText |-> "OK", contentLength |-> <<"4", "2">>],
      [status |-> 299, statusText |-> "", contentLength |-> Null],
      [status |-> 300, statusText |-> "Multiple Choices", contentLength |-> <<"-", "5">>],
      [status |-> 500, statusText |-> "Internal Server Error", contentLength |-> <<"a", "b">>],
      [status |-> 199, statusText |-> "", contentLength |-> <<"7", "x">>] }

\* (status, statusText) pairs the handle shows at the error event
ErrorResponses ==
    { [status |-> 0, statusText |-> ""],
      [status |-> 0, statusText |-> "Network Error"] }

TerminalEvents == {"load", "error", "abort", "timeout"}

(* --------------------- constants of the plugin ------------------------ *)

HTTP_EVENT_TYPE == "com.amazon.rum.http_event"
XRAY_TRACE_EVENT_TYPE == "com.amazon.rum.xray_trace_event"
X_AMZN_TRACE_ID == "X-Amzn-Trace-Id"
logicalServiceName == "rum.aws.amazon.com"

VARIABLES
    xhrMap,       \* this.xhrMap: handle -> XhrDetails
    listeners,    \* handle -> the event types the plugin's handlers listen to
    recorded,     \* the calls of context.record the last operation made, in order
    config,       \* this.config (recordAllRequests, addXRayTraceIdHeader)
    enableXRay,   \* this.context.config.enableXRay
    session,      \* this.context.getSession(): <<>> (undefined) or <<session>>
    hostState,    \* handle -> "unsent" | "opened" | "sent" | "done"
    hostReq,      \* handle -> <<>> or <<the arguments of the last original open>>
    reqHeaders,   \* handle -> the request headers set since the last open
    now,          \* the clock epochTime() reads
    sends,        \* number of send calls so far
    hostCalls,    \* the original open / send invocations the last operation made
    last          \* the operation that produced this state and what it was given

vars == <<xhrMap, listeners, recorded, config, enableXRay, session,
          hostState, hostReq, reqHeaders, now, sends, hostCalls, last>>

(* ------------------- collaborators outside the file ------------------- *)

\* http-utils isUrlAllowed(url, config)
isUrlAllowed(url) == url.host \in AllowedHosts

\* http-utils requestInfoToHostname(url)
requestInfoToHostname(url) == url.host

\* http-utils epochTime()
epochTime == now

\* http-utils createXRayTraceEvent(name, startTime): n numbers the trace, its
\* ids are fresh
createXRayTraceEvent(name, startTime, n) ==
    [ name |-> name,
      id |-> [segment |-> 2 * n],
      trace_id |-> [root |-> n],
      start_time |-> startTime,
      subsegments |-> <<>> ]

\* http-utils createXRaySubsegment(name, startTime, http)
createXRaySubsegment(name, startTime, http, n) ==
    [ id |-> [segment |-> 2 * n + 1],
      name |-> name,
      start_time |-> startTime,
      http |-> http ]

\* http-utils getAmznTraceIdHeaderValue(traceId, segmentId)
getAmznTraceIdHeaderValue(traceId, segmentId) ==
    [Root |-> traceId, Parent |-> segmentId, Sampled |-> 1]

\* errors/XhrError: new XhrError(message)
XhrError(message) == [name |-> "XMLHttpRequest error", message |-> message]

\* js-error-utils errorEventToJsErrorEvent({type: 'error', error}): an Error
\* object gives its name and message, a string gives itself as both
errorEventToJsErrorEvent(error) ==
    IF DOMAIN error = {"name", "message"}
    THEN [version |-> "1.0.0", type |-> error.name, message |-> error.message]
    ELSE [version |-> "1.0.0", type |-> error.primitive, message |-> error.primitive]

(* ------------------------- JavaScript built-ins ----------------------- *)

Digit(d) ==
    CASE d = 0 -> "0" [] d = 1 -> "1" [] d = 2 -> "2" [] d = 3 -> "3" [] d = 4 -> "4"
      [] d = 5 -> "5" [] d = 6 -> "6" [] d = 7 -> "7" [] d = 8 -> "8" [] d = 9 -> "9"

\* Number.prototype.toString() of a non-negative integer
RECURSIVE NumberToString(_)
NumberToString(n) ==
    IF n < 10 THEN Digit(n) ELSE NumberToString(n \div 10) \o Digit(n % 10)

DigitChars == {"0", "1", "2", "3", "4", "5", "6", "7", "8", "9"}

DigitValue(c) == CHOOSE d \in 0..9 : Digit(d) = c

\* the digits a string starts with, as a number (0 for none)
RECURSIVE LeadingDigits(_, _)
LeadingDigits(s, acc) ==
    IF s = <<>> \/ Head(s) \notin DigitChars THEN acc
    ELSE LeadingDigits(Tail(s), 10 * acc + DigitValue(Head(s)))

\* parseInt(s, 10): optional sign, then the leading digits; NaN without a digit
parseInt(s) ==
    LET neg  == s # <<>> /\ Head(s) = "-"
        body == IF s # <<>> /\ Head(s) \in {"-", "+"} THEN Tail(s) ELSE s
    IN IF body = <<>> \/ Head(body) \notin DigitChars
       THEN [nan |-> TRUE]
       ELSE [nan |-> FALSE,
             value |-> IF neg THEN 0 - LeadingDigits(body, 0) ELSE LeadingDigits(body, 0)]

isNaN(x) == x.nan

(* ------------------------------ XhrPlugin ------------------------------ *)

addXRayTraceIdHeader == config.addXRayTraceIdHeader

isTracingEnabled == enableXRay

\* this.context.getSession()?.record || false
isSessionRecorded == IF session = <<>> THEN FALSE ELSE session[1].record

\* mutant: the upper end of the ok range taken inclusive
statusOk_upperInclusive(status) == status >= 200 /\ status <= 300

statusOk(status) == status >= 200 /\ status < 300

hasTrace(xhrDetails) == "trace" \in DOMAIN xhrDetails

\* the events one call of context.record(type, data) adds
record(type, data) == <<[type |-> type, data |-> data]>>

\* mutant: end_time written on the root segment only
setEndTime_rootOnly(trace, endTime) == [end_time |-> endTime] @@ trace

\* trace.end_time = endTime; trace.subsegments[0].end_time = endTime
setEndTime(trace, endTime) ==
    [end_time |-> endTime] @@
    [trace EXCEPT !.subsegments[1] = [end_time |-> endTime] @@ @]

\* subsegments[0].http.response = {status}, content_length when parseInt of the
\* Content-Length header is not NaN
setResponse(trace, status, contentLength) ==
    LET cl == parseInt(contentLength)
        response == IF ~isNaN(cl)
                    THEN [status |-> status, content_length |-> parseInt(contentLength).value]
                    ELSE [status |-> status]
    IN [trace EXCEPT !.subsegments[1].http = [response |-> response] @@ @]

\* subsegments[0].error = true; subsegments[0].cause = {exceptions: [exception]}
setError(trace, exception) ==
    [trace EXCEPT !.subsegments[1] =
        [error |-> TRUE, cause |-> [exceptions |-> <<exception>>]] @@ @]

\* mutant: the trace event gated on the tracing setting alone
recordTraceEvent_ignoresSession(trace) ==
    IF isTracingEnabled THEN record(XRAY_TRACE_EVENT_TYPE, trace) ELSE <<>>

recordTraceEvent(trace) ==
    IF isTracingEnabled /\ isSessionRecorded
    THEN record(XRAY_TRACE_EVENT_TYPE, trace)
    ELSE <<>>

\* mutant: a non-ok response summarized with an error description as well
recordHttpEventWithResponse_alsoError(xhrDetails, status, statusText) ==
    IF config.recordAllRequests \/ ~statusOk(status)
    THEN record(HTTP_EVENT_TYPE,
                IF statusOk(status)
                THEN [ version |-> "1.0.0",
                       request |-> [method |-> xhrDetails.method],
                       response |-> [status |-> status, statusText |-> statusText] ]
                ELSE [ version |-> "1.0.0",
                       request |-> [method |-> xhrDetails.method],
                       response |-> [status |-> status, statusText |-> statusText],
                       error |-> errorEventToJsErrorEvent([primitive |-> statusText]) ])
    ELSE <<>>

recordHttpEventWithResponse(xhrDetails, status, statusText) ==
    IF config.recordAllRequests \/ ~statusOk(status)
    THEN record(HTTP_EVENT_TYPE,
                [ version |-> "1.0.0",
                  request |-> [method |-> xhrDetails.method],
                  response |-> [status |-> status, statusText |-> statusText] ])
    ELSE <<>>

\* mutant: the failure summary gated like the success summary
recordHttpEventWithError_gated(xhrDetails, error) ==
    IF config.recordAllRequests
    THEN record(HTTP_EVENT_TYPE,
                [ version |-> "1.0.0",
                  request |-> [method |-> xhrDetails.method],
                  error |-> errorEventToJsErrorEvent(error) ])
    ELSE <<>>

recordHttpEventWithError(xhrDetails, error) ==
    record(HTTP_EVENT_TYPE,
           [ version |-> "1.0.0",
             request |-> [method |-> xhrDetails.method],
             error |-> errorEventToJsErrorEvent(error) ])

\* mutant: a record that already has a trace keeps it and only restarts its clock
initializeTrace_reusesTrace(xhrDetails, startTime, n) ==
    IF "trace" \in DOMAIN xhrDetails
    THEN [trace |-> [xhrDetails.trace EXCEPT !.start_time = startTime,
                                             !.subsegments[1].start_time = startTime]]
             @@ xhrDetails
    ELSE [trace |->
             [createXRayTraceEvent(logicalServiceName, startTime, n) EXCEPT
                 !.subsegments =
                     <<createXRaySubsegment(
                           requestInfoToHostname(xhrDetails.url), startTime,
                           [request |-> [method |-> xhrDetails.method, traced |-> TRUE]],
                           n)>>]]
             @@ xhrDetails

\* xhrDetails with a new trace started at startTime
initializeTrace(xhrDetails, startTime, n) ==
    LET trace == createXRayTraceEvent(logicalServiceName, startTime, n)
        subsegment ==
            createXRaySubsegment(
                requestInfoToHostname(xhrDetails.url),
                startTime,
                [request |-> [method |-> xhrDetails.method, traced |-> TRUE]],
                n)
    IN [trace |-> [trace EXCEPT !.subsegments = Append(@, subsegment)]] @@ xhrDetails

\* What `last` keeps of a terminal callback: the event, the handle, what the
\* handle showed, the host's phase of the handle when the callback ran, whether
\* the handler found a record and whether it raised.
callback(op, xhr, input, found, threw) ==
    [op |-> op, this |-> xhr, input |-> input, phase |-> hostState[xhr],
     found |-> found, threw |-> threw]

\* The four terminal handlers share one shape: a handle without a record is
\* ignored; otherwise the trace is finalized in place (`finished`) and the
\* events `emitted` are recorded.  xhrDetails.trace.end_time = endTime on a
\* record without a trace is a TypeError, raised before anything is written.
\* mutant: one trace shared by the store, every traced record gets the
\* finalized trace
handleTerminal_sharedTrace(xhr, op, input, finished, emitted) ==
    /\ hostCalls' = <<>>
    /\ IF xhr \notin DOMAIN xhrMap
       THEN /\ UNCHANGED xhrMap
            /\ recorded' = <<>>
            /\ last' = callback(op, xhr, input, FALSE, FALSE)
       ELSE IF ~hasTrace(xhrMap[xhr])
       THEN /\ UNCHANGED xhrMap
            /\ recorded' = <<>>
            /\ last' = callback(op, xhr, input, TRUE, TRUE)
       ELSE /\ xhrMap' = [h \in DOMAIN xhrMap |->
                             IF hasTrace(xhrMap[h])
                             THEN [trace |-> finished] @@ xhrMap[h]
                             ELSE xhrMap[h]]
            /\ recorded' = emitted
            /\ last' = callback(op, xhr, input, TRUE, FALSE)

\* mutant: no check that a record was found, the missing record is dereferenced
handleTerminal_unguarded(xhr, op, input, finished, emitted) ==
    /\ hostCalls' = <<>>
    /\ IF xhr \notin DOMAIN xhrMap \/ ~hasTrace(xhrMap[xhr])
       THEN /\ UNCHANGED xhrMap
            /\ recorded' = <<>>
            /\ last' = callback(op, xhr, input, xhr \in DOMAIN xhrMap, TRUE)
       ELSE /\ xhrMap' = [xhrMap EXCEPT ![xhr] = [trace |-> finished] @@ @]
            /\ recorded' = emitted
            /\ last' = callback(op, xhr, input, TRUE, FALSE)

\* mutant: the record is evicted once its request has been finalized
handleTerminal_evicts(xhr, op, input, finished, emitted) ==
    /\ hostCalls' = <<>>
    /\ IF xhr \notin DOMAIN xhrMap
       THEN /\ UNCHANGED xhrMap
            /\ recorded' = <<>>
            /\ last' = callback(op, xhr, input, FALSE, FALSE)
       ELSE IF ~hasTrace(xhrMap[xhr])
       THEN /\ UNCHANGED xhrMap
            /\ recorded' = <<>>
            /\ last' = callback(op, xhr, input, TRUE, TRUE)
       ELSE /\ xhrMap' = [h \in DOMAIN xhrMap \ {xhr} |-> xhrMap[h]]
            /\ recorded' = emitted
            /\ last' = callback(op, xhr, input, TRUE, FALSE)

handleTerminal(xhr, op, input, finished, emitted) ==
    /\ hostCalls' = <<>>
    /\ IF xhr \notin DOMAIN xhrMap
       THEN /\ UNCHANGED xhrMap
            /\ recorded' = <<>>
            /\ last' = callback(op, xhr, input, FALSE, FALSE)
       ELSE IF ~hasTrace(xhrMap[xhr])
       THEN /\ UNCHANGED xhrMap
            /\ recorded' = <<>>
            /\ last' = callback(op, xhr, input, TRUE, TRUE)
       ELSE /\ xhrMap' = [xhrMap EXCEPT ![xhr] = [trace |-> finished] @@ @]
            /\ recorded' = emitted
            /\ last' = callback(op, xhr, input, TRUE, FALSE)

\* xhrDetails.trace of the handle's record (evaluated only when it has one)
traceOf(xhr) == xhrMap[xhr].trace

handleXhrLoadEvent(xhr, response) ==
    LET finished ==
            setResponse(setEndTime(traceOf(xhr), epochTime),
                        response.status, response.contentLength)
    IN handleTerminal(xhr, "load", response,
           finished,
           recordTraceEvent(finished)
               \o recordHttpEventWithResponse(xhrMap[xhr], response.status, response.statusText))

\* mutant: the status text appended to the message even when it is empty
handleXhrErrorEvent_alwaysStatusText(xhr, response) ==
    LET errorName == "XMLHttpRequest error"
        errorMessage == NumberToString(response.status) \o ": " \o response.statusText
        finished ==
            setError(setEndTime(traceOf(xhr), epochTime),
                     [type |-> errorName, message |-> errorMessage])
    IN handleTerminal(xhr, "error", response,
           finished,
           recordTraceEvent(finished)
               \o recordHttpEventWithError(xhrMap[xhr], XhrError(errorMessage)))

handleXhrErrorEvent(xhr, response) ==
    LET errorName == "XMLHttpRequest error"
        errorMessage ==
            IF response.statusText # ""
            THEN NumberToString(response.status) \o ": " \o response.statusText
            ELSE NumberToString(response.status)
        finished ==
            setError(setEndTime(traceOf(xhr), epochTime),
                     [type |-> errorName, message |-> errorMessage])
    IN handleTerminal(xhr, "error", response,
           finished,
           recordTraceEvent(finished)
               \o recordHttpEventWithError(xhrMap[xhr], XhrError(errorMessage)))

handleXhrAbortEvent(xhr) ==
    LET errorName == "XMLHttpRequest abort"
        finished == setError(setEndTime(traceOf(xhr), epochTime), [type |-> errorName])
    IN handleTerminal(xhr, "abort", [none |-> TRUE],
           finished,
           recordTraceEvent(finished)
               \o recordHttpEventWithError(xhrMap[xhr], [primitive |-> errorName]))

\* mutant: the trace event recorded after end_time is set but before the error
\* and cause are, and after the HTTP event
handleXhrTimeoutEvent_recordsEarly(xhr) ==
    LET errorName == "XMLHttpRequest timeout"
        ended == setEndTime(traceOf(xhr), epochTime)
        finished == setError(ended, [type |-> errorName])
    IN handleTerminal(xhr, "timeout", [none |-> TRUE],
           finished,
           recordHttpEventWithError(xhrMap[xhr], [primitive |-> errorName])
               \o recordTraceEvent(ended))

handleXhrTimeoutEvent(xhr) ==
    LET errorName == "XMLHttpRequest timeout"
        finished == setError(setEndTime(traceOf(xhr), epochTime), [type |-> errorName])
    IN handleTerminal(xhr, "timeout", [none |-> TRUE],
           finished,
           recordTraceEvent(finished)
               \o recordHttpEventWithError(xhrMap[xhr], [primitive |-> errorName]))

\* mutant: the header written without asking whether the session is recorded
injectsTraceHeader_ignoresSession == isTracingEnabled /\ addXRayTraceIdHeader

\* the condition under which send writes the trace header
injectsTraceHeader == isTracingEnabled /\ addXRayTraceIdHeader /\ isSessionRecorded

\* XMLHttpRequest.setRequestHeader(name, value) on a handle's header list
setRequestHeader(headers, name, value) == (name :> value) @@ headers

\* the original XMLHttpRequest.prototype.open: the handle is (re)opened for the
\* given request, a request in flight is dropped, the header list is emptied
originalOpen(xhr, args) ==
    /\ hostState' = [hostState EXCEPT ![xhr] = "opened"]
    /\ hostReq' = [hostReq EXCEPT ![xhr] = <<args>>]
    /\ reqHeaders' = [reqHeaders EXCEPT ![xhr] = <<>>]
    /\ hostCalls' = <<[op |-> "open", this |-> xhr, args |-> args]>>

\* the original XMLHttpRequest.prototype.send on an opened handle whose header
\* list the wrapper left as `headers`
originalSend(xhr, args, headers) ==
    /\ hostState' = [hostState EXCEPT ![xhr] = "sent"]
    /\ reqHeaders' = [reqHeaders EXCEPT ![xhr] = headers]
    /\ hostCalls' = <<[op |-> "send", this |-> xhr, args |-> args]>>
    /\ UNCHANGED hostReq

\* both originals return undefined
originalResult == "undefined"

\* What `last` keeps of a wrapper call: the call, the value it returned, and
\* the handle's phase and record when it was made.
wrapperCall(op, xhr, args, ret) ==
    [op |-> op, this |-> xhr, args |-> args, ret |-> ret, phase |-> hostState[xhr],
     prior |-> IF xhr \in DOMAIN xhrMap THEN <<xhrMap[xhr]>> ELSE <<>>]

\* mutant: an existing record is kept, the first open wins
openWrapper_firstWins(xhr, args) ==
    /\ xhrMap' = IF isUrlAllowed(args.url) /\ xhr \notin DOMAIN xhrMap
                 THEN (xhr :> [url |-> args.url, method |-> args.method, async |-> args.async])
                          @@ xhrMap
                 ELSE xhrMap
    /\ originalOpen(xhr, args)
    /\ last' = wrapperCall("open", xhr, args, originalResult)
    /\ recorded' = <<>>
    /\ UNCHANGED <<listeners, config, enableXRay, session, now, sends>>

\* mutant: open already attaches the four listeners of a tracked request
openWrapper_attachesListeners(xhr, args) ==
    /\ xhrMap' = IF isUrlAllowed(args.url)
                 THEN (xhr :> [url |-> args.url, method |-> args.method, async |-> args.async])
                          @@ xhrMap
                 ELSE xhrMap
    /\ listeners' = IF isUrlAllowed(args.url)
                    THEN [listeners EXCEPT ![xhr] = @ \cup TerminalEvents]
                    ELSE listeners
    /\ originalOpen(xhr, args)
    /\ last' = wrapperCall("open", xhr, args, originalResult)
    /\ recorded' = <<>>
    /\ UNCHANGED <<config, enableXRay, session, now, sends>>

openWrapper(xhr, args) ==
    /\ xhrMap' = IF isUrlAllowed(args.url)
                 THEN (xhr :> [url |-> args.url, method |-> args.method, async |-> args.async])
                          @@ xhrMap
                 ELSE xhrMap
    /\ originalOpen(xhr, args)
    /\ last' = wrapperCall("open", xhr, args, originalResult)
    /\ recorded' = <<>>
    /\ UNCHANGED <<listeners, config, enableXRay, session, now, sends>>

\* mutant: the original send is called only for a tracked handle
sendWrapper_tracksOnly(xhr) ==
    /\ hostState[xhr] = "opened"
    /\ sends < MaxSends
    /\ sends' = sends + 1
    /\ IF xhr \in DOMAIN xhrMap
       THEN LET xhrDetails == initializeTrace(xhrMap[xhr], epochTime, sends + 1)
            IN /\ listeners' = [listeners EXCEPT ![xhr] = @ \cup TerminalEvents]
               /\ xhrMap' = [xhrMap EXCEPT ![xhr] = xhrDetails]
               /\ originalSend(xhr, <<>>,
                     IF injectsTraceHeader
                     THEN setRequestHeader(reqHeaders[xhr], X_AMZN_TRACE_ID,
                              getAmznTraceIdHeaderValue(
                                  xhrDetails.trace.trace_id,
                                  xhrDetails.trace.subsegments[1].id))
                     ELSE reqHeaders[xhr])
       ELSE /\ UNCHANGED <<listeners, xhrMap, hostState, hostReq, reqHeaders>>
            /\ hostCalls' = <<>>
    /\ last' = wrapperCall("send", xhr, <<>>, originalResult)
    /\ recorded' = <<>>
    /\ UNCHANGED <<config, enableXRay, session, now>>

\* send takes no argument; the application calls it on an opened handle
sendWrapper(xhr) ==
    /\ hostState[xhr] = "opened"
    /\ sends < MaxSends
    /\ sends' = sends + 1
    /\ IF xhr \in DOMAIN xhrMap
       THEN LET xhrDetails == initializeTrace(xhrMap[xhr], epochTime, sends + 1)
            IN /\ listeners' = [listeners EXCEPT ![xhr] = @ \cup TerminalEvents]
               /\ xhrMap' = [xhrMap EXCEPT ![xhr] = xhrDetails]
               /\ originalSend(xhr, <<>>,
                     IF injectsTraceHeader
                     THEN setRequestHeader(reqHeaders[xhr], X_AMZN_TRACE_ID,
                              getAmznTraceIdHeaderValue(
                                  xhrDetails.trace.trace_id,
                                  xhrDetails.trace.subsegments[1].id))
                     ELSE reqHeaders[xhr])
       ELSE /\ UNCHANGED <<listeners, xhrMap>>
            /\ originalSend(xhr, <<>>, reqHeaders[xhr])
    /\ last' = wrapperCall("send", xhr, <<>>, originalResult)
    /\ recorded' = <<>>
    /\ UNCHANGED <<config, enableXRay, session, now>>

(* -------------------------------- host -------------------------------- *)

\* The request of a sent handle ends with exactly one of load, error, abort,
\* timeout (the event sequences of the class comment).
hostEnds(xhr) ==
    /\ hostState[xhr] = "sent"
    /\ hostState' = [hostState EXCEPT ![xhr] = "done"]
    /\ UNCHANGED <<listeners, config, enableXRay, session, hostReq, reqHeaders, now, sends>>

\* no listener of the plugin is attached for the event: no plugin code runs
unobserved(xhr, op) ==
    /\ op \notin listeners[xhr]
    /\ last' = [op |-> op, this |-> xhr, phase |-> hostState[xhr],
                found |-> FALSE, threw |-> FALSE, unheard |-> TRUE]
    /\ recorded' = <<>>
    /\ hostCalls' = <<>>
    /\ UNCHANGED xhrMap

Load(xhr, response) ==
    /\ hostEnds(xhr)
    /\ \/ "load" \in listeners[xhr] /\ handleXhrLoadEvent(xhr, response)
       \/ unobserved(xhr, "load")

Error(xhr, response) ==
    /\ hostEnds(xhr)
    /\ \/ "error" \in listeners[xhr] /\ handleXhrErrorEvent(xhr, response)
       \/ unobserved(xhr, "error")

Abort(xhr) ==
    /\ hostEnds(xhr)
    /\ \/ "abort" \in listeners[xhr] /\ handleXhrAbortEvent(xhr)
       \/ unobserved(xhr, "abort")

Timeout(xhr) ==
    /\ hostEnds(xhr)
    /\ \/ "timeout" \in listeners[xhr] /\ handleXhrTimeoutEvent(xhr)
       \/ unobserved(xhr, "timeout")

\* A host that breaks the one-terminal-event rule: a listener of the plugin is
\* called on a handle that has no request in flight (a duplicate or late event).
stray(xhr, op) ==
    /\ hostState[xhr] # "sent"
    /\ op \in listeners[xhr]
    /\ UNCHANGED <<listeners, config, enableXRay, session,
                   hostState, hostReq, reqHeaders, now, sends>>

StrayLoad(xhr, response) == stray(xhr, "load") /\ handleXhrLoadEvent(xhr, response)

StrayError(xhr, response) == stray(xhr, "error") /\ handleXhrErrorEvent(xhr, response)

StrayAbort(xhr) == stray(xhr, "abort") /\ handleXhrAbortEvent(xhr)

StrayTimeout(xhr) == stray(xhr, "timeout") /\ handleXhrTimeoutEvent(xhr)

\* time passes
Tick ==
    /\ now < MaxClock
    /\ now' = now + 1
    /\ last' = [op |-> "tick"]
    /\ recorded' = <<>>
    /\ hostCalls' = <<>>
    /\ UNCHANGED <<xhrMap, listeners, config, enableXRay, session,
                   hostState, hostReq, reqHeaders, sends>>

\* the session manager starts a new session, sampled in or out
NewSession(sampled) ==
    /\ session # <<[record |-> sampled]>>
    /\ session' = <<[record |-> sampled]>>
    /\ last' = [op |-> "session"]
    /\ recorded' = <<>>
    /\ hostCalls' = <<>>
    /\ UNCHANGED <<xhrMap, listeners, config, enableXRay,
                   hostState, hostReq, reqHeaders, now, sends>>

Init ==
    /\ xhrMap = <<>>
    /\ listeners = [h \in Handles |-> {}]
    /\ recorded = <<>>
    /\ config \in [recordAllRequests : BOOLEAN, addXRayTraceIdHeader : BOOLEAN]
    /\ enableXRay \in BOOLEAN
    /\ session \in {<<>>, <<[record |-> TRUE]>>, <<[record |-> FALSE]>>}
    /\ hostState = [h \in Handles |-> "unsent"]
    /\ hostReq = [h \in Handles |-> <<>>]
    /\ reqHeaders = [h \in Handles |-> <<>>]
    /\ now = 0
    /\ sends = 0
    /\ hostCalls = <<>>
    /\ last = [op |-> "init"]

Next ==
    \/ \E xhr \in Handles, args \in OpenArgs : openWrapper(xhr, args)
    \/ \E xhr \in Handles : sendWrapper(xhr)
    \/ \E xhr \in Handles, response \in LoadResponses : Load(xhr, response)
    \/ \E xhr \in Handles, response \in ErrorResponses : Error(xhr, response)
    \/ \E xhr \in Handles : Abort(xhr)
    \/ \E xhr \in Handles : Timeout(xhr)
    \/ Tick
    \/ \E sampled \in BOOLEAN : NewSession(sampled)

\* the host keeps the rule of one terminal event per request
Spec == Init /\ [][Next]_vars

NextHostAnomaly ==
    \/ Next
    \/ \E xhr \in Handles, response \in LoadResponses : StrayLoad(xhr, response)
    \/ \E xhr \in Handles, response \in ErrorResponses : StrayError(xhr, response)
    \/ \E xhr \in Handles : StrayAbort(xhr)
    \/ \E xhr \in Handles : StrayTimeout(xhr)

\* the host may also deliver duplicate or late terminal events
SpecHostAnomaly == Init /\ [][NextHostAnomaly]_vars

(* ------------------------- untracked callbacks ------------------------- *)

\* A terminal handler is called with a handle that has no record.  The plugin
\* attaches its listeners only to handles that have one and never removes a
\* record, so this call is made here directly, as a caller of the handler.
untracked(xhr) ==
    /\ xhr \notin DOMAIN xhrMap
    /\ UNCHANGED <<listeners, config, enableXRay, session,
                   hostState, hostReq, reqHeaders, now, sends>>

UntrackedLoad(xhr, response) == untracked(xhr) /\ handleXhrLoadEvent(xhr, response)

UntrackedError(xhr, response) == untracked(xhr) /\ handleXhrErrorEvent(xhr, response)

UntrackedAbort(xhr) == untracked(xhr) /\ handleXhrAbortEvent(xhr)

UntrackedTimeout(xhr) == untracked(xhr) /\ handleXhrTimeoutEvent(xhr)

NextUntracked ==
    \/ Next
    \/ \E xhr \in Handles, response \in LoadResponses : UntrackedLoad(xhr, response)
    \/ \E xhr \in Handles, response \in ErrorResponses : UntrackedError(xhr, response)
    \/ \E xhr \in Handles : UntrackedAbort(xhr)
    \/ \E xhr \in Handles : UntrackedTimeout(xhr)

\* the handlers may also be called for a handle without a record
SpecUntracked == Init /\ [][NextUntracked]_vars

(* ----------------------------- two handles ----------------------------- *)

\* two XMLHttpRequest objects in use at the same time
HandlePair == {"xhr1", "xhr2"}

\* what the two handles show at their load events
PairLoadResponses == {r \in LoadResponses : r.status \in {200, 500}}

\* what the two handles show at their error events
PairErrorResponses == {r \in ErrorResponses : r.statusText # ""}

\* the plugin as constructed, with every request recorded and traced, and two
\* handles not yet opened
InitTwoHandles ==
    /\ xhrMap = <<>>
    /\ listeners = [h \in HandlePair |-> {}]
    /\ recorded = <<>>
    /\ config = [recordAllRequests |-> TRUE, addXRayTraceIdHeader |-> TRUE]
    /\ enableXRay = TRUE
    /\ session = <<[record |-> TRUE]>>
    /\ hostState = [h \in HandlePair |-> "unsent"]
    /\ hostReq = [h \in HandlePair |-> <<>>]
    /\ reqHeaders = [h \in HandlePair |-> <<>>]
    /\ now = 0
    /\ sends = 0
    /\ hostCalls = <<>>
    /\ last = [op |-> "init"]

NextTwoHandles ==
    \/ \E xhr \in HandlePair, args \in OpenArgs : openWrapper(xhr, args)
    \/ \E xhr \in HandlePair : sendWrapper(xhr)
    \/ \E xhr \in HandlePair, response \in PairLoadResponses : Load(xhr, response)
    \/ \E xhr \in HandlePair, response \in PairErrorResponses : Error(xhr, response)
    \/ \E xhr \in HandlePair : Abort(xhr)
    \/ \E xhr \in HandlePair : Timeout(xhr)

\* the operations of two handles in any interleaving
SpecTwoHandles == InitTwoHandles /\ [][NextTwoHandles]_vars

(* ------------------------------- claims ------------------------------- *)

\* the last operation was a terminal callback whose handler found a record
\* and finalized its trace
Processed == last.op \in TerminalEvents /\ last.found /\ ~last.threw

HttpEvents == SelectSeq(recorded, LAMBDA e : e.type = HTTP_EVENT_TYPE)

TraceEvents == SelectSeq(recorded, LAMBDA e : e.type = XRAY_TRACE_EVENT_TYPE)

\* the request the handle was last opened for was rejected by the filter
RejectedRequest(xhr, req) == req[xhr] # <<>> /\ ~isUrlAllowed(req[xhr][1].url)

\* C1: an operation (open, send, terminal callback) on a handle whose current
\* request was rejected by the filter creates no record, attaches no
\* listener, starts no trace and records no event, whatever the handle was
\* used for before.
C1_RejectedRequestIsNeverTracked ==
    [][\A xhr \in Handles :
         ( /\ last'.op \in {"open", "send"} \cup TerminalEvents
           /\ last'.this = xhr
           /\ RejectedRequest(xhr, hostReq') )
         => /\ xhrMap' = xhrMap
            /\ listeners' = listeners
            /\ recorded' = <<>>]_vars

\* C2: after a processed load callback, a status in [200,300) has an HTTP
\* summary event iff recordAllRequests; any other status has exactly one.
C2_LoadSummaryPolicy ==
    (last.op = "load" /\ Processed) =>
        IF last.input.status \in 200..299
        THEN Len(HttpEvents) = (IF config.recordAllRequests THEN 1 ELSE 0)
        ELSE /\ Len(HttpEvents) = 1
             /\ HttpEvents[1].data.response.status = last.input.status

C2_Witness ==
    /\ last.op = "load" /\ Processed
    /\ last.input.status = 299
    /\ ~config.recordAllRequests
    /\ HttpEvents = <<>>

\* C3: after a processed error, abort or timeout callback exactly one HTTP
\* summary event is recorded, with an error description and no response,
\* under every configuration and session state.
C3_FailureSummaryUnconditional ==
    (last.op \in {"error", "abort", "timeout"} /\ Processed) =>
        /\ Len(HttpEvents) = 1
        /\ "error" \in DOMAIN HttpEvents[1].data
        /\ "response" \notin DOMAIN HttpEvents[1].data

C3_Witness ==
    /\ last.op = "timeout" /\ Processed
    /\ ~config.recordAllRequests /\ ~enableXRay /\ ~isSessionRecorded
    /\ Len(HttpEvents) = 1
    /\ HttpEvents[1].data.error.type = "XMLHttpRequest timeout"
    /\ DOMAIN HttpEvents[1].data = {"version", "request", "error"}

\* C4: a processed terminal callback records one trace event (the finalized
\* trace) iff tracing is enabled and a session exists and is recorded at that
\* moment, and none otherwise; the HTTP summary does not depend on either.
C4_TraceEventPolicy ==
    Processed =>
        /\ Len(TraceEvents) =
               (IF enableXRay /\ session # <<>> /\ session[1].record THEN 1 ELSE 0)
        /\ \A i \in 1..Len(TraceEvents) : TraceEvents[i].data = xhrMap[last.this].trace
        /\ Len(HttpEvents) =
               (IF last.op = "load" /\ last.input.status \in 200..299
                      /\ ~config.recordAllRequests
                THEN 0 ELSE 1)

C4_Witness ==
    /\ Processed
    /\ enableXRay /\ session = <<>>
    /\ TraceEvents = <<>>
    /\ Len(HttpEvents) = 1

\* C5: after send the request carries the trace header iff the handle had a
\* record and tracing, addXRayTraceIdHeader and session-recorded all hold; the
\* header names the trace id and subsegment id of the trace just started, and
\* send sets no other header.
C5_HeaderPolicy ==
    last.op = "send" =>
        LET xhr == last.this
            present == X_AMZN_TRACE_ID \in DOMAIN reqHeaders[xhr]
        IN /\ present <=>
                  ( /\ last.prior # <<>>
                    /\ enableXRay
                    /\ config.addXRayTraceIdHeader
                    /\ session # <<>> /\ session[1].record )
           /\ DOMAIN reqHeaders[xhr] \subseteq {X_AMZN_TRACE_ID}
           /\ present =>
                  reqHeaders[xhr][X_AMZN_TRACE_ID] =
                      [ Root |-> xhrMap[xhr].trace.trace_id,
                        Parent |-> xhrMap[xhr].trace.subsegments[1].id,
                        Sampled |-> 1 ]

C5_Witness ==
    /\ last.op = "send"
    /\ X_AMZN_TRACE_ID \in DOMAIN reqHeaders[last.this]
    /\ ~config.recordAllRequests

\* C6: a terminal callback that arrives after the request of its handle has
\* already ended records no event and leaves every trace as it was.
C6_LaterCallbackIsIgnored ==
    [][(last'.op \in TerminalEvents /\ last'.phase = "done")
         => (recorded' = <<>> /\ xhrMap' = xhrMap)]_vars

\* C7: after an open whose URL passes the filter the handle's record is
\* exactly the method, URL and async flag of that call (whatever record the
\* handle had); the trace started by the following send has that method and
\* the hostname of that URL.
C7_LastOpenWins ==
    /\ (last.op = "open" /\ isUrlAllowed(last.args.url)) =>
           /\ last.this \in DOMAIN xhrMap
           /\ xhrMap[last.this] =
                  [url |-> last.args.url, method |-> last.args.method,
                   async |-> last.args.async]
    /\ (last.op = "send" /\ ~RejectedRequest(last.this, hostReq)) =>
           LET final == hostReq[last.this][1]
               xhrDetails == xhrMap[last.this]
           IN /\ xhrDetails.method = final.method
              /\ xhrDetails.url = final.url
              /\ xhrDetails.async = final.async
              /\ Len(xhrDetails.trace.subsegments) = 1
              /\ xhrDetails.trace.subsegments[1].name = final.url.host
              /\ xhrDetails.trace.subsegments[1].http.request.method = final.method

C7_Witness ==
    /\ last.op = "open"
    /\ last.phase = "opened"
    /\ last.prior # <<>>
    /\ ~hasTrace(last.prior[1])
    /\ last.prior[1].method # last.args.method
    /\ last.prior[1].url # last.args.url
    /\ xhrMap[last.this].method = last.args.method
    /\ xhrMap[last.this].url = last.args.url

C9_EndTimesSet ==
    Processed =>
        LET trace == xhrMap[last.this].trace
            subsegment == xhrMap[last.this].trace.subsegments[1]
        IN /\ "end_time" \in DOMAIN trace
           /\ "end_time" \in DOMAIN subsegment
           /\ trace.end_time = subsegment.end_time
           /\ trace.end_time >= trace.start_time
           /\ subsegment.end_time >= subsegment.start_time

C9_Witness ==
    /\ Processed
    /\ last.op = "abort"
    /\ xhrMap[last.this].trace.subsegments[1].end_time
           > xhrMap[last.this].trace.subsegments[1].start_time

\* C10: every HTTP summary event recorded has a response description or an
\* error description, and never both.
C10_ResponseXorError ==
    \A i \in 1..Len(HttpEvents) :
        ("response" \in DOMAIN HttpEvents[i].data) # ("error" \in DOMAIN HttpEvents[i].data)

C10_Witness ==
    /\ last.op = "load"
    /\ Len(HttpEvents) = 1
    /\ "response" \in DOMAIN HttpEvents[1].data
    /\ "error" \notin DOMAIN HttpEvents[1].data
    /\ last.input.status = 500

\* end_time is set on the root and on the subsegment
Finalized(trace) ==
    "end_time" \in DOMAIN trace /\ "end_time" \in DOMAIN trace.subsegments[1]

\* the session is sampled in and tracing is enabled
Sampled == enableXRay /\ session # <<>> /\ session[1].record

\* a finalized trace that the handle's record still holds after the step is
\* the same value as before the step
FinalizedTracesKept ==
    \A xhr \in DOMAIN xhrMap :
        ( /\ hasTrace(xhrMap[xhr])
          /\ Finalized(xhrMap[xhr].trace)
          /\ hasTrace(xhrMap'[xhr])
          /\ xhrMap'[xhr].trace.trace_id = xhrMap[xhr].trace.trace_id )
        => xhrMap'[xhr].trace = xhrMap[xhr].trace

C12_UnsentRequestIsNeverFinalized ==
    [][ \A xhr \in Handles :
            hostState'[xhr] = "opened" =>
                /\ listeners'[xhr] = listeners[xhr]
                /\ ~Processed'
                /\ recorded' = <<>>
                /\ xhr \in DOMAIN xhrMap' =>
                       \/ ~hasTrace(xhrMap'[xhr])
                       \/ xhr \in DOMAIN xhrMap /\ xhrMap'[xhr] = xhrMap[xhr] ]_vars

\* a handle whose earlier request completed (its listeners are still attached)
\* is opened again for an accepted URL and time passes without a send
C12_Witness ==
    \E xhr \in Handles :
        /\ hostState[xhr] = "opened"
        /\ listeners[xhr] = TerminalEvents
        /\ last.op = "tick"
        /\ xhr \in DOMAIN xhrMap
        /\ ~hasTrace(xhrMap[xhr])

\* the Content-Length header value declares a length: it parses to a number
\* and that number is not negative
DeclaresLength(header) ==
    LET cl == parseInt(header)
    IN IF isNaN(cl) THEN FALSE ELSE cl.value >= 0

\* C13: after a processed load callback the trace's response carries
\* content_length exactly when the Content-Length header is present and is a
\* parseable, non-negative number; for an absent, non-numeric or negative
\* header content_length is omitted.
C13_ContentLengthOnlyIfNonNegative ==
    (Processed /\ last.op = "load") =>
        LET response == xhrMap[last.this].trace.subsegments[1].http.response
        IN ("content_length" \in DOMAIN response)
               <=> DeclaresLength(last.input.contentLength)

\* the step is an open, a send or a terminal callback on handle xhr
OperationOn(xhr) == "this" \in DOMAIN last' /\ last'.this = xhr

\* everything the plugin and the host keep for a handle is as before the step
HandleUntouched(xhr) ==
    /\ (xhr \in DOMAIN xhrMap') = (xhr \in DOMAIN xhrMap)
    /\ xhr \in DOMAIN xhrMap => xhrMap'[xhr] = xhrMap[xhr]
    /\ listeners'[xhr] = listeners[xhr]
    /\ hostState'[xhr] = hostState[xhr]
    /\ hostReq'[xhr] = hostReq[xhr]
    /\ reqHeaders'[xhr] = reqHeaders[xhr]

\* every event the step recorded is made from the record of handle xhr alone
EventsDescribe(xhr) ==
    \A i \in 1..Len(recorded') :
        IF recorded'[i].type = HTTP_EVENT_TYPE
        THEN recorded'[i].data.request = [method |-> xhrMap[xhr].method]
        ELSE /\ recorded'[i].data = xhrMap'[xhr].trace
             /\ recorded'[i].data.trace_id = xhrMap[xhr].trace.trace_id
             /\ recorded'[i].data.subsegments[1].name =
                    requestInfoToHostname(xhrMap[xhr].url)

\* C14: under any interleaving of open, send and terminal callbacks of two
\* handles, an operation on one handle leaves the other handle's record, trace,
\* listeners and request untouched, and the events it records are made from
\* its own handle's record only.
C14_HandlesAreIndependent ==
    [][ \A xhr \in HandlePair :
            OperationOn(xhr) =>
                /\ \A other \in HandlePair \ {xhr} : HandleUntouched(other)
                /\ EventsDescribe(xhr) ]_vars

\* a callback is processed for one handle while the other handle's request,
\* for another host and method, is still in flight
C14_Witness ==
    /\ Processed
    /\ Len(recorded) = 2
    /\ \E other \in HandlePair \ {last.this} :
           /\ hostState[other] = "sent"
           /\ other \in DOMAIN xhrMap
           /\ hasTrace(xhrMap[other])
           /\ ~Finalized(xhrMap[other].trace)
           /\ xhrMap[other].method # xhrMap[last.this].method
           /\ xhrMap[other].url # xhrMap[last.this].url

\* the handles the step opened with a URL the filter accepts
AcceptedOpen ==
    {xhr \in HandlePair :
        last'.op = "open" /\ last'.this = xhr /\ isUrlAllowed(last'.args.url)}

\* C15: the store starts empty and every step leaves in it exactly the handles
\* it held before plus the handle the step opened with a filter-accepted URL,
\* so the set of tracked handles only grows and is exactly the set of handles
\* opened at least once with an accepted URL; a processed terminal callback
\* leaves its handle's record in the store.
C15_StoreNeverLosesAnEntry ==
    /\ xhrMap = <<>>
    /\ [][ /\ DOMAIN xhrMap' = DOMAIN xhrMap \cup AcceptedOpen
           /\ Processed' => last'.this \in DOMAIN xhrMap' ]_vars

\* both handles are tracked, one of them has just been finalized and the other
\* has since been re-opened for a rejected URL
C15_Witness ==
    /\ DOMAIN xhrMap = HandlePair
    /\ Processed
    /\ Finalized(xhrMap[last.this].trace)
    /\ \E other \in HandlePair \ {last.this} :
           hostReq[other] # <<>> /\ ~isUrlAllowed(hostReq[other][1].url)

\* the exception the claim expects in the cause of a failed request
ExpectedException ==
    CASE last.op = "timeout" -> [type |-> "XMLHttpRequest timeout"]
      [] last.op = "abort" -> [type |-> "XMLHttpRequest abort"]
      [] last.op = "error" ->
            [type |-> "XMLHttpRequest error",
             message |-> IF last.input.statusText = ""
                         THEN NumberToString(last.input.status)
                         ELSE NumberToString(last.input.status) \o ": "
                                  \o last.input.statusText]

\* C16: after a processed failure callback the subsegment has error = true
\* and a cause with exactly one exception: only the fixed type for timeout and
\* abort, the type 'XMLHttpRequest error' and the message status[: statusText]
\* for a network error.  After a processed load callback the subsegment has
\* the response status and neither error nor cause.
C16_FailureCause ==
    Processed =>
        LET subsegment == xhrMap[last.this].trace.subsegments[1]
        IN IF last.op = "load"
           THEN /\ "response" \in DOMAIN subsegment.http
                /\ subsegment.http.response.status = last.input.status
                /\ "error" \notin DOMAIN subsegment
                /\ "cause" \notin DOMAIN subsegment
           ELSE /\ "error" \in DOMAIN subsegment
                /\ subsegment.error = TRUE
                /\ "cause" \in DOMAIN subsegment
                /\ DOMAIN subsegment.cause = {"exceptions"}
                /\ subsegment.cause.exceptions = <<ExpectedException>>
                /\ "response" \notin DOMAIN subsegment.http

\* a network error whose handle shows status 0 and no status text
C16_Witness ==
    /\ Processed
    /\ last.op = "error"
    /\ last.input.statusText = ""
    /\ xhrMap[last.this].trace.subsegments[1].cause.exceptions[1].message = "0"

\* the step ran a terminal handler for a handle that had no record
HandlerRanWithoutRecord ==
    /\ last'.op \in TerminalEvents
    /\ "unheard" \notin DOMAIN last'
    /\ last'.this \notin DOMAIN xhrMap

\* C17: a terminal handler called for a handle without a record records no
\* event, changes no record or trace, attaches nothing, calls nothing of the
\* host and raises no error.
C17_MissingRecordIsSilentNoOp ==
    [][ HandlerRanWithoutRecord =>
            /\ recorded' = <<>>
            /\ xhrMap' = xhrMap
            /\ listeners' = listeners
            /\ hostCalls' = <<>>
            /\ ~last'.found
            /\ ~last'.threw ]_vars

\* the error handler has run for a handle whose request, rejected by the
\* filter, was sent
C17_Witness ==
    /\ last.op = "error"
    /\ "unheard" \notin DOMAIN last
    /\ ~last.found
    /\ ~last.threw
    /\ last.phase = "sent"
    /\ last.this \notin DOMAIN xhrMap

\* C18: whenever a terminal handler finds a record for its handle, the record
\* has a trace, so the handler's write to trace.end_time never dereferences an
\* absent trace; this holds after every sequence of operations, including an
\* open that replaces the record after an earlier send attached the listeners.
C18_FoundRecordHasTrace ==
    (last.op \in TerminalEvents /\ "unheard" \notin DOMAIN last /\ last.found)
        => ~last.threw

\* C19: if the request whose terminal callback was processed carries the
\* trace header set at send, then the callback records the trace event, and
\* the event has the trace id and subsegment id named in the header; also
\* when the session changed between send and the callback.
C19_HeaderImpliesTraceEvent ==
    (Processed /\ X_AMZN_TRACE_ID \in DOMAIN reqHeaders[last.this]) =>
        /\ Len(TraceEvents) = 1
        /\ TraceEvents[1].data.trace_id = reqHeaders[last.this][X_AMZN_TRACE_ID].Root
        /\ TraceEvents[1].data.subsegments[1].id =
               reqHeaders[last.this][X_AMZN_TRACE_ID].Parent

\* end_time is set on root and subsegment, and the subsegment has the outcome:
\* a response, or error and cause
FullyFinalized(trace) ==
    /\ Finalized(trace)
    /\ \/ "response" \in DOMAIN trace.subsegments[1].http
       \/ {"error", "cause"} \subseteq DOMAIN trace.subsegments[1]

\* C20: a processed terminal callback records at most two events, at most one
\* trace event and at most one HTTP event, a trace event before an HTTP event;
\* the trace a trace event carries is the fully finalized trace of the record,
\* and the record's trace is fully finalized whenever any event is recorded.
C20_EventsPerCallback ==
    Processed =>
        /\ Len(recorded) <= 2
        /\ Len(TraceEvents) <= 1
        /\ Len(HttpEvents) <= 1
        /\ recorded = TraceEvents \o HttpEvents
        /\ FullyFinalized(xhrMap[last.this].trace)
        /\ \A i \in 1..Len(TraceEvents) :
               TraceEvents[i].data = xhrMap[last.this].trace

\* a timeout callback that recorded both events
C20_Witness ==
    /\ Processed
    /\ last.op = "timeout"
    /\ Len(recorded) = 2
    /\ recorded[1].type = XRAY_TRACE_EVENT_TYPE
    /\ recorded[2].type = HTTP_EVENT_TYPE

====
